---- MODULE Spec2Model ----
(***************************************************************************)
(* Model of src/script.js: the appointment table of Eternia Healthcare.    *)
(* One DOMContentLoaded handler wires an add button, three text inputs     *)
(* and per-row check buttons to a table capped at MAX_ROWS rows.           *)
(*                                                                         *)
(* Strings the code inspects character by character (the input values and  *)
(* the counter text) are sequences of one-character strings.               *)
(***************************************************************************)
EXTENDS Integers, Sequences, FiniteSets, TLC

VARIABLES
    tableBody,      \* tableBody.children: the sequence of rows
    nameInput,      \* nameInput.value
    numberInput,    \* numberInput.value
    areaInput,      \* areaInput.value
    rowCountSpan,   \* rowCountSpan.textContent
    limitMessage,   \* limitMessage.classList contains 'limit-reached'
    addRowButton,   \* [disabled, textContent] of the add button
    notice,         \* the alert() surfaced while handling the last event
    lastEvent,      \* kind of the last event delivered by the event loop
    loaded,         \* the DOMContentLoaded handler has run
    phoneTest       \* [arg, called, result]: a direct call of isValidPhoneNumber

vars == <<tableBody, nameInput, numberInput, areaInput, rowCountSpan,
          limitMessage, addRowButton, notice, lastEvent, loaded, phoneTest>>

\* Everything the page shows or stores, without the event bookkeeping.
pageVars == <<tableBody, nameInput, numberInput, areaInput, rowCountSpan,
              limitMessage, addRowButton>>

-----------------------------------------------------------------------------
(* Program constants *)

MAX_ROWS == 160

\* the {10} of /^\d{10}$/
PhoneDigits == 10

(* Bounds of the model *)

\* the page's initial table leaves at most this many free slots
MaxHeadroom == 2

\* at most this many characters are inserted into an example phone number
MaxEdits == 2

-----------------------------------------------------------------------------
(* Characters and strings *)

\* what \s and String.prototype.trim treat as white space (those the model types)
WhiteSpace == {" ", "\t"}

\* the character class [\s\-\(\)] of isValidPhoneNumber
StripClass == WhiteSpace \cup {"-", "(", ")"}

\* the character class \d
DigitChars == <<"0", "1", "2", "3", "4", "5", "6", "7", "8", "9">>

Digit == {DigitChars[i] : i \in 1..10}

\* String.prototype.trim
RECURSIVE TrimStart(_)
TrimStart(s) ==
    IF s # <<>> /\ Head(s) \in WhiteSpace THEN TrimStart(Tail(s)) ELSE s

RECURSIVE TrimEnd(_)
TrimEnd(s) ==
    IF s # <<>> /\ s[Len(s)] \in WhiteSpace
    THEN TrimEnd(SubSeq(s, 1, Len(s) - 1))
    ELSE s

\* a trim that returns its argument as it is
trim_Identity(s) == s

trim(s) == TrimEnd(TrimStart(s))

\* numberString.replace(/[\s\-\(\)]/g, '')
CleanNumber(numberString) ==
    SelectSeq(numberString, LAMBDA c : c \notin StripClass)

\* /^\d{10}$/.test(cleanedNumber)
TenDigits(cleanedNumber) ==
    /\ Len(cleanedNumber) = PhoneDigits
    /\ \A i \in 1..Len(cleanedNumber) : cleanedNumber[i] \in Digit

\* isValidPhoneNumber with a pattern that is not anchored: /\d{10}/
isValidPhoneNumber_Unanchored(numberString) ==
    LET cleanedNumber == CleanNumber(numberString) IN
    \E k \in 1..Len(cleanedNumber) :
        /\ k + PhoneDigits - 1 <= Len(cleanedNumber)
        /\ \A i \in k..(k + PhoneDigits - 1) : cleanedNumber[i] \in Digit

\* isValidPhoneNumber that strips white space and dashes but not parentheses
isValidPhoneNumber_KeepParens(numberString) ==
    TenDigits(SelectSeq(numberString, LAMBDA c : c \notin WhiteSpace \cup {"-"}))

isValidPhoneNumber(numberString) == TenDigits(CleanNumber(numberString))

\* the text a number takes when assigned to textContent
RECURSIVE NumberToText(_)
NumberToText(n) ==
    IF n < 10 THEN <<DigitChars[n + 1]>>
    ELSE NumberToText(n \div 10) \o <<DigitChars[(n % 10) + 1]>>

-----------------------------------------------------------------------------
(* Rows *)

EmptyBox == "U+2610"
CheckMark == "U+2714"

\* createNewRow showing the number without its spaces, hyphens and parentheses
createNewRow_CleanNumber(name, number, area) ==
    [name |-> name, number |-> CleanNumber(number), area |-> area,
     classList |-> {"check-button", "unchecked"},
     textContent |-> EmptyBox,
     opacity |-> "",
     origin |-> "created"]

\* createNewRow(name, number, area): cells in order, an unchecked check button
\* and no inline opacity on the new <tr>
createNewRow(name, number, area) ==
    [name |-> name, number |-> number, area |-> area,
     classList |-> {"check-button", "unchecked"},
     textContent |-> EmptyBox,
     opacity |-> "",
     origin |-> "created"]

\* a row of the page's own markup: the example row, check button unchecked
PageRow ==
    [name |-> <<"D">>, number |-> <<"0">>, area |-> <<"X">>,
     classList |-> {"check-button", "unchecked"},
     textContent |-> EmptyBox,
     opacity |-> "",
     origin |-> "page"]

\* toggleCheck whose else branch does not restore the row's opacity
toggleCheck_StaysDim(r) ==
    IF "unchecked" \in r.classList
    THEN [r EXCEPT !.classList = (r.classList \ {"unchecked"}) \cup {"checked"},
                   !.textContent = CheckMark,
                   !.opacity = "0.6"]
    ELSE [r EXCEPT !.classList = (r.classList \ {"checked"}) \cup {"unchecked"},
                   !.textContent = EmptyBox]

\* toggleCheck that adds 'checked' without removing 'unchecked'
toggleCheck_KeepsUnchecked(r) ==
    IF "unchecked" \in r.classList /\ "checked" \notin r.classList
    THEN [r EXCEPT !.classList = r.classList \cup {"checked"},
                   !.textContent = CheckMark,
                   !.opacity = "0.6"]
    ELSE [r EXCEPT !.classList = (r.classList \ {"checked"}) \cup {"unchecked"},
                   !.textContent = EmptyBox,
                   !.opacity = "1"]

\* toggleCheck on the check button of row r
toggleCheck(r) ==
    IF "unchecked" \in r.classList
    THEN [r EXCEPT !.classList = (r.classList \ {"unchecked"}) \cup {"checked"},
                   !.textContent = CheckMark,
                   !.opacity = "0.6"]
    ELSE [r EXCEPT !.classList = (r.classList \ {"checked"}) \cup {"unchecked"},
                   !.textContent = EmptyBox,
                   !.opacity = "1"]

\* opacity the row is painted with, in percent: the inline style when set,
\* otherwise the initial value of the CSS property
RenderedOpacity(r) ==
    CASE r.opacity = "" -> 100
      [] r.opacity = "1" -> 100
      [] r.opacity = "0.6" -> 60

-----------------------------------------------------------------------------
(* What the user can type *)

Ex_Dashed == <<"1", "2", "3", "-", "4", "5", "6", "-", "7", "8", "9", "0">>
Ex_Parens == <<"(", "1", "2", "3", ")", " ", "4", "5", "6", "-", "7", "8", "9", "0">>
Ex_Pairs == <<"1", "2", "-", "3", "4", "-", "5", "6", "-", "7", "8", "-", "9", "0">>
Ex_Short == <<"1", "2", "3", "4", "5">>
Ex_Long == <<"1", "2", "3", "4", "5", "6", "7", "8", "9", "0", "1">>
Ex_Letters == <<"1", "2", "3", "-", "a", "b", "c", "-", "7", "8", "9", "0">>
Ex_Suffix == <<"1", "2", "3", "4", "5", "6", "7", "8", "9", "0", "a", "b", "c">>

PhoneExamples == {Ex_Dashed, Ex_Parens, Ex_Pairs, Ex_Short, Ex_Long, Ex_Letters, Ex_Suffix}

\* characters inserted into the examples
PhoneAlphabet == {"5", " ", "\t", "-", "(", ")", "x"}

NameDrafts == {<<>>, <<" ">>, <<" ", "A", " ", "B", "\t">>}

NumberDrafts == {<<"\t", " ">>, Ex_Letters, <<" ">> \o Ex_Parens \o <<" ">>}

AreaDrafts == {<<"\t">>, <<"N", " ">>}

Inputs == {"name", "number", "area"}

DraftsOf(input) ==
    CASE input = "name" -> NameDrafts
      [] input = "number" -> NumberDrafts
      [] input = "area" -> AreaDrafts

Keys == {"Enter", "a"}

-----------------------------------------------------------------------------
(* The program *)

\* updateRowCount with > in place of >=
updateRowCount_Strict ==
    LET currentRowCount == Len(tableBody') IN
    /\ rowCountSpan' = NumberToText(currentRowCount)
    /\ IF currentRowCount > MAX_ROWS
       THEN /\ limitMessage' = TRUE
            /\ addRowButton' = [disabled |-> TRUE, textContent |-> "Limit Reached"]
       ELSE /\ limitMessage' = FALSE
            /\ addRowButton' = [disabled |-> FALSE, textContent |-> "Add Appointment"]

\* updateRowCount showing the row count read before the handler changed the table
updateRowCount_Stale ==
    LET currentRowCount == Len(tableBody') IN
    /\ rowCountSpan' = NumberToText(Len(tableBody))
    /\ IF currentRowCount >= MAX_ROWS
       THEN /\ limitMessage' = TRUE
            /\ addRowButton' = [disabled |-> TRUE, textContent |-> "Limit Reached"]
       ELSE /\ limitMessage' = FALSE
            /\ addRowButton' = [disabled |-> FALSE, textContent |-> "Add Appointment"]

\* updateRowCount without its else branch
updateRowCount_NoElse ==
    LET currentRowCount == Len(tableBody') IN
    /\ rowCountSpan' = NumberToText(currentRowCount)
    /\ IF currentRowCount >= MAX_ROWS
       THEN /\ limitMessage' = TRUE
            /\ addRowButton' = [disabled |-> TRUE, textContent |-> "Limit Reached"]
       ELSE UNCHANGED <<limitMessage, addRowButton>>

\* updateRowCount(), reading the table as it is when the call is made
updateRowCount ==
    LET currentRowCount == Len(tableBody') IN
    /\ rowCountSpan' = NumberToText(currentRowCount)
    /\ IF currentRowCount >= MAX_ROWS
       THEN /\ limitMessage' = TRUE
            /\ addRowButton' = [disabled |-> TRUE, textContent |-> "Limit Reached"]
       ELSE /\ limitMessage' = FALSE
            /\ addRowButton' = [disabled |-> FALSE, textContent |-> "Add Appointment"]

\* handleAddRow with the capacity test off by one
handleAddRow_OffByOne ==
    LET name == trim(nameInput)
        number == trim(numberInput)
        area == trim(areaInput)
    IN  IF name = <<>> \/ number = <<>> \/ area = <<>>
        THEN /\ notice' = "MissingField"
             /\ UNCHANGED pageVars
        ELSE IF ~isValidPhoneNumber(number)
        THEN /\ notice' = "InvalidPhoneNumber"
             /\ UNCHANGED pageVars
        ELSE IF Len(tableBody) <= MAX_ROWS
        THEN /\ tableBody' = Append(tableBody, createNewRow(name, number, area))
             /\ nameInput' = <<>>
             /\ numberInput' = <<>>
             /\ areaInput' = <<>>
             /\ updateRowCount
             /\ notice' = "None"
        ELSE /\ notice' = "None"
             /\ UNCHANGED pageVars

\* handleAddRow clearing the inputs when the phone number is rejected
handleAddRow_ClearOnInvalid ==
    LET name == trim(nameInput)
        number == trim(numberInput)
        area == trim(areaInput)
    IN  IF name = <<>> \/ number = <<>> \/ area = <<>>
        THEN /\ notice' = "MissingField"
             /\ UNCHANGED pageVars
        ELSE IF ~isValidPhoneNumber(number)
        THEN /\ notice' = "InvalidPhoneNumber"
             /\ nameInput' = <<>>
             /\ numberInput' = <<>>
             /\ areaInput' = <<>>
             /\ UNCHANGED <<tableBody, rowCountSpan, limitMessage, addRowButton>>
        ELSE IF Len(tableBody) < MAX_ROWS
        THEN /\ tableBody' = Append(tableBody, createNewRow(name, number, area))
             /\ nameInput' = <<>>
             /\ numberInput' = <<>>
             /\ areaInput' = <<>>
             /\ updateRowCount
             /\ notice' = "None"
        ELSE /\ notice' = "None"
             /\ UNCHANGED pageVars

\* handleAddRow clearing the inputs after the capacity test instead of inside it
handleAddRow_ClearAtCapacity ==
    LET name == trim(nameInput)
        number == trim(numberInput)
        area == trim(areaInput)
    IN  IF name = <<>> \/ number = <<>> \/ area = <<>>
        THEN /\ notice' = "MissingField"
             /\ UNCHANGED pageVars
        ELSE IF ~isValidPhoneNumber(number)
        THEN /\ notice' = "InvalidPhoneNumber"
             /\ UNCHANGED pageVars
        ELSE IF Len(tableBody) < MAX_ROWS
        THEN /\ tableBody' = Append(tableBody, createNewRow(name, number, area))
             /\ nameInput' = <<>>
             /\ numberInput' = <<>>
             /\ areaInput' = <<>>
             /\ updateRowCount
             /\ notice' = "None"
        ELSE /\ notice' = "None"
             /\ nameInput' = <<>>
             /\ numberInput' = <<>>
             /\ areaInput' = <<>>
             /\ UNCHANGED <<tableBody, rowCountSpan, limitMessage, addRowButton>>

\* handleAddRow inserting the new row before the first row
handleAddRow_Prepend ==
    LET name == trim(nameInput)
        number == trim(numberInput)
        area == trim(areaInput)
    IN  IF name = <<>> \/ number = <<>> \/ area = <<>>
        THEN /\ notice' = "MissingField"
             /\ UNCHANGED pageVars
        ELSE IF ~isValidPhoneNumber(number)
        THEN /\ notice' = "InvalidPhoneNumber"
             /\ UNCHANGED pageVars
        ELSE IF Len(tableBody) < MAX_ROWS
        THEN /\ tableBody' = <<createNewRow(name, number, area)>> \o tableBody
             /\ nameInput' = <<>>
             /\ numberInput' = <<>>
             /\ areaInput' = <<>>
             /\ updateRowCount
             /\ notice' = "None"
        ELSE /\ notice' = "None"
             /\ UNCHANGED pageVars

\* handleAddRow that does not clear the area input
handleAddRow_KeepArea ==
    LET name == trim(nameInput)
        number == trim(numberInput)
        area == trim(areaInput)
    IN  IF name = <<>> \/ number = <<>> \/ area = <<>>
        THEN /\ notice' = "MissingField"
             /\ UNCHANGED pageVars
        ELSE IF ~isValidPhoneNumber(number)
        THEN /\ notice' = "InvalidPhoneNumber"
             /\ UNCHANGED pageVars
        ELSE IF Len(tableBody) < MAX_ROWS
        THEN /\ tableBody' = Append(tableBody, createNewRow(name, number, area))
             /\ nameInput' = <<>>
             /\ numberInput' = <<>>
             /\ areaInput' = areaInput
             /\ updateRowCount
             /\ notice' = "None"
        ELSE /\ notice' = "None"
             /\ UNCHANGED pageVars

\* handleAddRow testing the capacity before the phone number
handleAddRow_CapacityFirst ==
    LET name == trim(nameInput)
        number == trim(numberInput)
        area == trim(areaInput)
    IN  IF name = <<>> \/ number = <<>> \/ area = <<>>
        THEN /\ notice' = "MissingField"
             /\ UNCHANGED pageVars
        ELSE IF Len(tableBody) >= MAX_ROWS
        THEN /\ notice' = "None"
             /\ UNCHANGED pageVars
        ELSE IF ~isValidPhoneNumber(number)
        THEN /\ notice' = "InvalidPhoneNumber"
             /\ UNCHANGED pageVars
        ELSE /\ tableBody' = Append(tableBody, createNewRow(name, number, area))
             /\ nameInput' = <<>>
             /\ numberInput' = <<>>
             /\ areaInput' = <<>>
             /\ updateRowCount
             /\ notice' = "None"

\* handleAddRow()
handleAddRow ==
    LET name == trim(nameInput)
        number == trim(numberInput)
        area == trim(areaInput)
    IN  IF name = <<>> \/ number = <<>> \/ area = <<>>
        THEN /\ notice' = "MissingField"
             /\ UNCHANGED pageVars
        ELSE IF ~isValidPhoneNumber(number)
        THEN /\ notice' = "InvalidPhoneNumber"
             /\ UNCHANGED pageVars
        ELSE IF Len(tableBody) < MAX_ROWS
        THEN /\ tableBody' = Append(tableBody, createNewRow(name, number, area))
             /\ nameInput' = <<>>
             /\ numberInput' = <<>>
             /\ areaInput' = <<>>
             /\ updateRowCount
             /\ notice' = "None"
        ELSE /\ notice' = "None"
             /\ UNCHANGED pageVars

\* the page as served: its rows, empty inputs, the counter and button of the markup
Init ==
    /\ \E free \in 0..MaxHeadroom : tableBody = [i \in 1..(MAX_ROWS - free) |-> PageRow]
    /\ nameInput = <<>>
    /\ numberInput = <<>>
    /\ areaInput = <<>>
    /\ rowCountSpan = <<"0">>
    /\ limitMessage = FALSE
    /\ addRowButton = [disabled |-> FALSE, textContent |-> "Add Appointment"]
    /\ notice = "None"
    /\ lastEvent = "none"
    /\ loaded = FALSE
    /\ phoneTest = [arg |-> <<>>, edits |-> 0, called |-> FALSE, result |-> FALSE]

\* the DOMContentLoaded handler without its closing updateRowCount()
DOMContentLoaded_NoRefresh ==
    /\ ~loaded
    /\ loaded' = TRUE
    /\ lastEvent' = "load"
    /\ notice' = "None"
    /\ UNCHANGED <<tableBody, rowCountSpan, limitMessage, addRowButton>>
    /\ UNCHANGED <<nameInput, numberInput, areaInput, phoneTest>>

\* the DOMContentLoaded handler: attach the listeners, then updateRowCount()
DOMContentLoaded ==
    /\ ~loaded
    /\ loaded' = TRUE
    /\ lastEvent' = "load"
    /\ notice' = "None"
    /\ tableBody' = tableBody
    /\ updateRowCount
    /\ UNCHANGED <<nameInput, numberInput, areaInput, phoneTest>>

\* the user edits one input field
TypeInput(input, value) ==
    /\ loaded
    /\ nameInput' = IF input = "name" THEN value ELSE nameInput
    /\ numberInput' = IF input = "number" THEN value ELSE numberInput
    /\ areaInput' = IF input = "area" THEN value ELSE areaInput
    /\ lastEvent' = "input"
    /\ notice' = "None"
    /\ UNCHANGED <<tableBody, rowCountSpan, limitMessage, addRowButton, loaded, phoneTest>>

\* what activating the add control does: a disabled button dispatches no click
ClickEffect ==
    IF addRowButton.disabled
    THEN notice' = "None" /\ UNCHANGED pageVars
    ELSE handleAddRow

\* the user activates the add control
ClickAdd ==
    /\ loaded
    /\ lastEvent' = "click"
    /\ ClickEffect
    /\ UNCHANGED <<loaded, phoneTest>>

\* the keypress listener of one of the three inputs
KeyPress(input, key) ==
    /\ loaded
    /\ lastEvent' = IF key = "Enter" THEN "enter" ELSE "otherkey"
    /\ IF key = "Enter"
       THEN handleAddRow
       ELSE notice' = "None" /\ UNCHANGED pageVars
    /\ UNCHANGED <<loaded, phoneTest>>

\* rows whose check button the user clicks
ToggleTargets == {1, Len(tableBody)} \cap DOMAIN tableBody

\* a click that runs toggleCheck on every check button of the table
ToggleClick_AllRows(i) ==
    /\ loaded
    /\ i \in DOMAIN tableBody
    /\ tableBody' = [j \in DOMAIN tableBody |-> toggleCheck(tableBody[j])]
    /\ lastEvent' = "toggle"
    /\ notice' = "None"
    /\ UNCHANGED <<nameInput, numberInput, areaInput, rowCountSpan, limitMessage,
                   addRowButton, loaded, phoneTest>>

\* click on the check button of row i
ToggleClick(i) ==
    /\ loaded
    /\ i \in DOMAIN tableBody
    /\ tableBody' = [tableBody EXCEPT ![i] = toggleCheck(tableBody[i])]
    /\ lastEvent' = "toggle"
    /\ notice' = "None"
    /\ UNCHANGED <<nameInput, numberInput, areaInput, rowCountSpan, limitMessage,
                   addRowButton, loaded, phoneTest>>

Next ==
    \/ DOMContentLoaded
    \/ \E input \in Inputs : \E value \in DraftsOf(input) : TypeInput(input, value)
    \/ ClickAdd
    \/ \E input \in Inputs : \E key \in Keys : KeyPress(input, key)
    \/ \E i \in ToggleTargets : ToggleClick(i)

Spec == Init /\ [][Next]_vars

\* the browser fires DOMContentLoaded once the page is parsed
SpecLive == Init /\ [][Next]_vars /\ WF_vars(DOMContentLoaded)

-----------------------------------------------------------------------------
(* isValidPhoneNumber called directly on strings near the examples *)

InitPhone ==
    /\ tableBody = <<>>
    /\ nameInput = <<>>
    /\ numberInput = <<>>
    /\ areaInput = <<>>
    /\ rowCountSpan = <<"0">>
    /\ limitMessage = FALSE
    /\ addRowButton = [disabled |-> FALSE, textContent |-> "Add Appointment"]
    /\ notice = "None"
    /\ lastEvent = "none"
    /\ loaded = FALSE
    /\ \E s \in PhoneExamples \cup {<<>>} :
         phoneTest = [arg |-> s, edits |-> 0, called |-> FALSE, result |-> FALSE]

\* insert character c after position pos of the argument
InsertChar(pos, c) ==
    /\ phoneTest.edits < MaxEdits
    /\ pos \in 0..Len(phoneTest.arg)
    /\ phoneTest' = [arg |-> SubSeq(phoneTest.arg, 1, pos) \o <<c>>
                              \o SubSeq(phoneTest.arg, pos + 1, Len(phoneTest.arg)),
                     edits |-> phoneTest.edits + 1,
                     called |-> FALSE, result |-> FALSE]
    /\ UNCHANGED <<pageVars, notice, lastEvent, loaded>>

\* isValidPhoneNumber(arg)
CallIsValidPhoneNumber ==
    /\ ~phoneTest.called
    /\ phoneTest' = [phoneTest EXCEPT !.called = TRUE,
                                      !.result = isValidPhoneNumber(phoneTest.arg)]
    /\ UNCHANGED <<pageVars, notice, lastEvent, loaded>>

NextPhone ==
    \/ \E pos \in 0..Len(phoneTest.arg) : \E c \in PhoneAlphabet : InsertChar(pos, c)
    \/ CallIsValidPhoneNumber

SpecPhone == InitPhone /\ [][NextPhone]_vars

-----------------------------------------------------------------------------
(* updateRowCount called on its own, whatever the page showed before *)

\* row counts the table is given: near empty, near full, and beyond the limit
RefreshCounts == (0..MaxHeadroom) \cup ((MAX_ROWS - MaxHeadroom)..(MAX_ROWS + 1))

CounterTexts == {<<"0">>, <<"1", "5", "9">>, <<"1", "6", "0">>}

InitRefresh ==
    /\ \E n \in RefreshCounts : tableBody = [i \in 1..n |-> PageRow]
    /\ nameInput = <<>>
    /\ numberInput = <<>>
    /\ areaInput = <<>>
    /\ rowCountSpan \in CounterTexts
    /\ limitMessage \in BOOLEAN
    /\ addRowButton \in [disabled : BOOLEAN,
                         textContent : {"Add Appointment", "Limit Reached"}]
    /\ notice = "None"
    /\ lastEvent = "none"
    /\ loaded = TRUE
    /\ phoneTest = [arg |-> <<>>, edits |-> 0, called |-> FALSE, result |-> FALSE]

\* updateRowCount(), called once and then once more
Refresh ==
    /\ lastEvent # "refresh again"
    /\ lastEvent' = IF lastEvent = "refresh" THEN "refresh again" ELSE "refresh"
    /\ tableBody' = tableBody
    /\ updateRowCount
    /\ UNCHANGED <<nameInput, numberInput, areaInput, notice, loaded, phoneTest>>

NextRefresh == Refresh

SpecRefresh == InitRefresh /\ [][NextRefresh]_vars

-----------------------------------------------------------------------------
(* Vocabulary of the properties *)

\* s is empty or consists of white space only
Blank(s) == \A i \in DOMAIN s : s[i] \in WhiteSpace

\* this step ran handleAddRow: Enter in an input, or a click the button dispatched
SubmitRan == lastEvent' = "enter" \/ (lastEvent' = "click" /\ ~addRowButton.disabled)

\* this step is a submission attempt, dispatched or not
SubmitAttempt == lastEvent' \in {"enter", "click"}

\* the number draft cleans to exactly ten digits
CleansToTenDigits == TenDigits(CleanNumber(numberInput))

\* this step ran handleAddRow on drafts that pass both validations
ValidSubmission ==
    SubmitRan /\ ~Blank(nameInput) /\ ~Blank(areaInput) /\ CleansToTenDigits

DraftsEmpty == nameInput = <<>> /\ numberInput = <<>> /\ areaInput = <<>>

DraftsUnchanged == UNCHANGED <<nameInput, numberInput, areaInput>>

\* s contains nothing but digits and the characters the cleaning removes
OnlyDigitsAndSeparators(s) ==
    \A i \in DOMAIN s : s[i] \in Digit \cup WhiteSpace \cup {"-", "(", ")"}

DigitCount(s) == Cardinality({i \in DOMAIN s : s[i] \in Digit})

\* the number a decimal text denotes
RECURSIVE TextToNumber(_)
TextToNumber(s) ==
    IF s = <<>> THEN 0
    ELSE 10 * TextToNumber(SubSeq(s, 1, Len(s) - 1))
         + (CHOOSE d \in 0..9 : DigitChars[d + 1] = s[Len(s)])

\* the row createNewRow made of r's name, number and area
Fresh(r) == createNewRow(r.name, r.number, r.area)

\* done-state, glyph and painted opacity of a row
View(r) == <<"checked" \in r.classList, "unchecked" \in r.classList,
            r.textContent, RenderedOpacity(r)>>

\* t is s without its leading and trailing white space
IsTrimOf(t, s) ==
    /\ t = <<>> \/ (t[1] \notin WhiteSpace /\ t[Len(t)] \notin WhiteSpace)
    /\ \E k \in 0..(Len(s) - Len(t)) :
          /\ SubSeq(s, k + 1, k + Len(t)) = t
          /\ \A i \in 1..k : s[i] \in WhiteSpace
          /\ \A i \in (k + Len(t) + 1)..Len(s) : s[i] \in WhiteSpace

Done(r) == "checked" \in r.classList

-----------------------------------------------------------------------------
(* Properties *)

\* C1: the table never holds more than MAX_ROWS rows (nor fewer than 0), and
\* a submission attempt with valid drafts made when the table already holds
\* MAX_ROWS rows adds no row.
C1_RowCountBounded ==
    /\ [](Len(tableBody) >= 0 /\ Len(tableBody) <= MAX_ROWS)
    /\ [][(SubmitAttempt /\ ~Blank(nameInput) /\ ~Blank(areaInput) /\ CleansToTenDigits
              /\ Len(tableBody) = MAX_ROWS)
          => tableBody' = tableBody]_vars

\* a valid submission was attempted by Enter on a full table and nothing was added
C1_Witness ==
    /\ lastEvent = "enter"
    /\ Len(tableBody) = MAX_ROWS
    /\ ~Blank(nameInput) /\ ~Blank(areaInput) /\ CleansToTenDigits
    /\ notice = "None"

\* C2 as stated: whenever handleAddRow runs with non-empty name, area and
\* number drafts whose number cleans to ten digits, exactly one row is added
\* and the three drafts become empty.
C2_AsStated ==
    [][(SubmitRan /\ nameInput # <<>> /\ areaInput # <<>> /\ numberInput # <<>>
           /\ CleansToTenDigits)
       => (Len(tableBody') = Len(tableBody) + 1 /\ DraftsEmpty')]_vars

\* C2 amended: whenever handleAddRow runs with name and area drafts that are
\* non-empty after trimming, a number draft that cleans to ten digits, and
\* fewer than MAX_ROWS rows in the table, exactly one row is added and the
\* three drafts become empty.
C2_ValidSubmissionSucceeds ==
    [][(SubmitRan /\ ~Blank(nameInput) /\ ~Blank(areaInput) /\ CleansToTenDigits
           /\ Len(tableBody) < MAX_ROWS)
       => (Len(tableBody') = Len(tableBody) + 1 /\ DraftsEmpty')]_vars

\* a submission has just appended a row typed with parentheses and cleared the drafts
C2_Witness ==
    /\ lastEvent \in {"enter", "click"}
    /\ notice = "None"
    /\ tableBody # <<>>
    /\ tableBody[Len(tableBody)].origin = "created"
    /\ tableBody[Len(tableBody)].number = Ex_Parens
    /\ DraftsEmpty

\* C3: whenever handleAddRow runs with a name, number or area draft that is
\* empty or white space only, it surfaces the MissingField notice and leaves
\* rows, drafts, counter, limit marker and add control unchanged.
C3_MissingFieldAborts ==
    [][(SubmitRan /\ (Blank(nameInput) \/ Blank(numberInput) \/ Blank(areaInput)))
       => (notice' = "MissingField" /\ UNCHANGED pageVars)]_vars

\* a submission with a white-space-only name next to a filled number was refused
C3_Witness ==
    /\ lastEvent \in {"enter", "click"}
    /\ notice = "MissingField"
    /\ nameInput = <<" ">>
    /\ ~Blank(numberInput)

\* C4 as stated: whenever handleAddRow runs with a number draft that
\* isValidPhoneNumber rejects, it surfaces the InvalidPhoneNumber notice and
\* leaves the row count and the three drafts unchanged.
C4_AsStated ==
    [][(SubmitRan /\ ~isValidPhoneNumber(numberInput))
       => (notice' = "InvalidPhoneNumber" /\ Len(tableBody') = Len(tableBody)
           /\ DraftsUnchanged)]_vars

\* C4 amended: whenever handleAddRow runs with all three drafts non-empty
\* after trimming and a number that isValidPhoneNumber rejects, it surfaces
\* the InvalidPhoneNumber notice and leaves the row count and the three
\* drafts unchanged.
C4_InvalidPhoneAborts ==
    [][(SubmitRan /\ ~Blank(nameInput) /\ ~Blank(numberInput) /\ ~Blank(areaInput)
           /\ ~isValidPhoneNumber(trim(numberInput)))
       => (notice' = "InvalidPhoneNumber" /\ Len(tableBody') = Len(tableBody)
           /\ DraftsUnchanged)]_vars

\* a submission with the number 123-abc-7890 was refused and the drafts kept
C4_Witness ==
    /\ lastEvent \in {"enter", "click"}
    /\ notice = "InvalidPhoneNumber"
    /\ numberInput = Ex_Letters
    /\ ~Blank(nameInput) /\ ~Blank(areaInput)

\* C5: isValidPhoneNumber(s) is true exactly when s consists of digits,
\* white space, hyphens and parentheses only and holds exactly ten digits;
\* the three listed valid examples are accepted and the four listed invalid
\* examples are rejected.
C5_PhoneValidity ==
    phoneTest.called =>
        /\ phoneTest.result <=>
             (OnlyDigitsAndSeparators(phoneTest.arg) /\ DigitCount(phoneTest.arg) = 10)
        /\ phoneTest.arg \in {Ex_Dashed, Ex_Parens, Ex_Pairs} => phoneTest.result
        /\ phoneTest.arg \in {Ex_Short, Ex_Long, Ex_Letters, Ex_Suffix} => ~phoneTest.result

\* an example with two more separators typed into it was accepted
C5_Witness ==
    /\ phoneTest.called
    /\ phoneTest.result
    /\ phoneTest.edits = 2
    /\ Len(phoneTest.arg) = Len(Ex_Pairs) + 2

\* C6: a toggle of a created row that has been toggled once since it was
\* fresh brings back the fresh row's unchecked state, glyph and opacity.
C6_ToggleTwiceRestores ==
    [][\A i \in DOMAIN tableBody :
          (/\ lastEvent' = "toggle"
           /\ tableBody'[i] # tableBody[i]
           /\ tableBody[i].origin = "created"
           /\ Done(tableBody[i]))
          => View(tableBody'[i]) = View(Fresh(tableBody[i]))]_vars

\* a created row has been toggled to checked and back
C6_Witness ==
    /\ lastEvent = "toggle"
    /\ \E i \in DOMAIN tableBody :
          /\ tableBody[i].origin = "created"
          /\ tableBody[i].opacity = "1"
          /\ ~Done(tableBody[i])

\* C7: after initialization the add control is disabled, labelled
\* "Limit Reached" and the limit marker shown exactly when the table holds
\* MAX_ROWS rows or more; otherwise the control is enabled, labelled
\* "Add Appointment" and the marker absent.
C7_LimitAffordance ==
    loaded =>
        IF Len(tableBody) >= 160
        THEN /\ addRowButton.disabled
             /\ addRowButton.textContent = "Limit Reached"
             /\ limitMessage
        ELSE /\ ~addRowButton.disabled
             /\ addRowButton.textContent = "Add Appointment"
             /\ ~limitMessage

\* the 160th row has just been added by a submission and the control is disabled
C7_Witness ==
    /\ loaded
    /\ lastEvent \in {"enter", "click"}
    /\ Len(tableBody) = 160
    /\ tableBody[Len(tableBody)].origin = "created"
    /\ DraftsEmpty
    /\ addRowButton.disabled

\* C8: after initialization the displayed counter denotes the number of rows
\* in the table.
C8_CounterMatchesRows ==
    loaded => TextToNumber(rowCountSpan) = Len(tableBody)

\* a submission has just added the 159th row and the counter shows 159
C8_Witness ==
    /\ loaded
    /\ lastEvent \in {"enter", "click"}
    /\ Len(tableBody) = 159
    /\ tableBody[Len(tableBody)].origin = "created"
    /\ DraftsEmpty
    /\ rowCountSpan = <<"1", "5", "9">>

\* C9: an Enter key press leaves the page and surfaces the notice that
\* activating the add control in the same state would, and a key press with
\* any other key changes nothing on the page and surfaces no notice.
C9_EnterSameAsClick ==
    [][/\ lastEvent' = "enter" => ClickEffect
       /\ lastEvent' = "otherkey" => (notice' = "None" /\ UNCHANGED pageVars)]_vars

\* C10: a toggle activation flips the done-state of one row and leaves the
\* other rows, every row's name, number and area, the row count, the
\* counter, the limit marker, the add control and the three drafts unchanged.
C10_ToggleFrame ==
    [][lastEvent' = "toggle" =>
         /\ DOMAIN tableBody' = DOMAIN tableBody
         /\ \E i \in DOMAIN tableBody :
               /\ Done(tableBody'[i]) # Done(tableBody[i])
               /\ tableBody'[i].name = tableBody[i].name
               /\ tableBody'[i].number = tableBody[i].number
               /\ tableBody'[i].area = tableBody[i].area
               /\ \A j \in DOMAIN tableBody \ {i} : tableBody'[j] = tableBody[j]
         /\ UNCHANGED <<nameInput, numberInput, areaInput, rowCountSpan,
                        limitMessage, addRowButton>>]_vars

\* one row has just been toggled to checked while another stays unchecked
\* and the drafts are still filled
C10_Witness ==
    /\ lastEvent = "toggle"
    /\ \E i, j \in DOMAIN tableBody : Done(tableBody[i]) /\ ~Done(tableBody[j])
    /\ ~Blank(nameInput) /\ ~Blank(numberInput) /\ ~Blank(areaInput)

\* C11: whenever handleAddRow runs with valid drafts on a table of MAX_ROWS
\* rows, it surfaces no notice and leaves rows, drafts, counter, limit marker
\* and add control unchanged.
C11_SilentAbortAtCapacity ==
    [][(SubmitRan /\ ~Blank(nameInput) /\ ~Blank(areaInput) /\ CleansToTenDigits
           /\ Len(tableBody) = MAX_ROWS)
       => (notice' = "None" /\ UNCHANGED pageVars)]_vars

\* Enter on a full table with a valid parenthesised number: no notice, the
\* drafts kept, the counter still 160 and the control still disabled
C11_Witness ==
    /\ lastEvent = "enter"
    /\ notice = "None"
    /\ Len(tableBody) = MAX_ROWS
    /\ numberInput = <<" ">> \o Ex_Parens \o <<" ">>
    /\ ~Blank(nameInput) /\ ~Blank(areaInput)
    /\ rowCountSpan = <<"1", "6", "0">>
    /\ addRowButton.disabled

\* C12: no step removes or moves a row or changes a row's name, number or
\* area, the row count never decreases, and a row's done-state changes only
\* in a toggle step.
C12_RowsPersist ==
    [][/\ Len(tableBody') >= Len(tableBody)
       /\ \A i \in DOMAIN tableBody :
             /\ tableBody'[i].name = tableBody[i].name
             /\ tableBody'[i].number = tableBody[i].number
             /\ tableBody'[i].area = tableBody[i].area
             /\ tableBody'[i].origin = tableBody[i].origin
             /\ tableBody'[i] # tableBody[i] => lastEvent' = "toggle"]_vars

\* a row was appended behind a created row that is still in its place, checked
C12_Witness ==
    /\ Len(tableBody) = MAX_ROWS
    /\ tableBody[MAX_ROWS].origin = "created"
    /\ tableBody[MAX_ROWS - 1].origin = "created"
    /\ Done(tableBody[MAX_ROWS - 1])
    /\ tableBody[1].origin = "page"

\* C13: every run of handleAddRow has exactly the outcome of the first
\* failing check in the order missing field, phone format, capacity:
\* MissingField when a draft is blank, whatever the number; otherwise
\* InvalidPhoneNumber when the number is rejected, whatever the row count;
\* otherwise a silent abort on a full table; otherwise one row appended
\* without notice.
C13_CheckOrder ==
    [][SubmitRan =>
         IF Blank(nameInput) \/ Blank(numberInput) \/ Blank(areaInput)
         THEN notice' = "MissingField" /\ tableBody' = tableBody
         ELSE IF ~(OnlyDigitsAndSeparators(numberInput) /\ DigitCount(numberInput) = 10)
         THEN notice' = "InvalidPhoneNumber" /\ tableBody' = tableBody
         ELSE IF Len(tableBody) >= 160
         THEN notice' = "None" /\ tableBody' = tableBody
         ELSE notice' = "None" /\ Len(tableBody') = Len(tableBody) + 1]_vars

\* Enter on a full table with the number 123-abc-7890 surfaced InvalidPhoneNumber
C13_Witness ==
    /\ lastEvent = "enter"
    /\ Len(tableBody) = MAX_ROWS
    /\ notice = "InvalidPhoneNumber"
    /\ numberInput = Ex_Letters

\* C14: handleAddRow never reaches its capacity test on a table of MAX_ROWS
\* rows while the add control is disabled.
C14_AbortOnlyWhileActive ==
    [][(SubmitRan /\ ~Blank(nameInput) /\ ~Blank(areaInput) /\ CleansToTenDigits
           /\ Len(tableBody) = MAX_ROWS)
       => ~addRowButton.disabled]_vars

\* C15: a step that changes the row count appends exactly one row behind the
\* rows already there, which stay as they are and in their order; the new row
\* holds the name, number and area drafts without their leading and trailing
\* white space, the number with its inner spaces, hyphens and parentheses.
C15_AppendedRowContent ==
    [][Len(tableBody') # Len(tableBody) =>
         /\ Len(tableBody') = Len(tableBody) + 1
         /\ \A i \in DOMAIN tableBody : tableBody'[i] = tableBody[i]
         /\ IsTrimOf(tableBody'[Len(tableBody')].name, nameInput)
         /\ IsTrimOf(tableBody'[Len(tableBody')].number, numberInput)
         /\ IsTrimOf(tableBody'[Len(tableBody')].area, areaInput)]_vars

\* Enter has just appended, as 159th row, "A B" with the number typed as
\* (123) 456-7890 and the area "N"
C15_Witness ==
    /\ lastEvent = "enter"
    /\ Len(tableBody) = 159
    /\ tableBody[159].origin = "created"
    /\ tableBody[159].name = <<"A", " ", "B">>
    /\ tableBody[159].number = Ex_Parens
    /\ tableBody[159].number # CleanNumber(Ex_Parens)
    /\ tableBody[159].area = <<"N">>
    /\ tableBody[158].origin = "page"

\* C16: a row enters the table unchecked, with the empty-box glyph and full
\* opacity; and every created row carries exactly one of the markers
\* unchecked and checked, with the empty box and full opacity when unchecked
\* and the check mark and opacity 0.6 when checked.
C16_TwoConsistentStates ==
    /\ [][Len(tableBody') = Len(tableBody) + 1 =>
            LET r == tableBody'[Len(tableBody')] IN
            /\ r.origin = "created"
            /\ "unchecked" \in r.classList /\ "checked" \notin r.classList
            /\ r.textContent = EmptyBox
            /\ RenderedOpacity(r) = 100]_vars
    /\ [](\A i \in DOMAIN tableBody :
            tableBody[i].origin = "created" =>
               LET r == tableBody[i] IN
               \/ /\ "unchecked" \in r.classList /\ "checked" \notin r.classList
                  /\ r.textContent = EmptyBox
                  /\ RenderedOpacity(r) = 100
               \/ /\ "checked" \in r.classList /\ "unchecked" \notin r.classList
                  /\ r.textContent = CheckMark
                  /\ RenderedOpacity(r) = 60)

\* two created rows side by side, one checked at 0.6, one unchecked again at 1
C16_Witness ==
    \E i, j \in DOMAIN tableBody :
        /\ tableBody[i].origin = "created" /\ tableBody[j].origin = "created"
        /\ tableBody[i].classList = {"check-button", "checked"}
        /\ tableBody[i].opacity = "0.6"
        /\ tableBody[j].classList = {"check-button", "unchecked"}
        /\ tableBody[j].opacity = "1"

\* C17: a run of updateRowCount leaves the table alone and sets counter,
\* limit marker, disabled flag and label from the number of rows only,
\* whatever they were before: counter the row count; marker on, control
\* disabled and labelled "Limit Reached" from MAX_ROWS rows on; marker off,
\* control enabled and labelled "Add Appointment" below, also when the
\* control was disabled before; and a second run changes nothing.
C17_RefreshFromRowCount ==
    [][lastEvent' \in {"refresh", "refresh again"} =>
         /\ tableBody' = tableBody
         /\ TextToNumber(rowCountSpan') = Len(tableBody)
         /\ IF Len(tableBody) >= 160
            THEN /\ limitMessage'
                 /\ addRowButton'.disabled
                 /\ addRowButton'.textContent = "Limit Reached"
            ELSE /\ ~limitMessage'
                 /\ ~addRowButton'.disabled
                 /\ addRowButton'.textContent = "Add Appointment"
         /\ lastEvent' = "refresh again" => UNCHANGED pageVars]_vars

\* updateRowCount has run twice on 159 rows: counter 159, control enabled
C17_Witness ==
    /\ lastEvent = "refresh again"
    /\ Len(tableBody) = 159
    /\ rowCountSpan = <<"1", "5", "9">>
    /\ ~limitMessage
    /\ addRowButton = [disabled |-> FALSE, textContent |-> "Add Appointment"]

\* C18: no user event is handled before the DOMContentLoaded handler has run,
\* the handler runs once and leaves the rows of the page as they are, and in
\* the state it leaves the counter denotes the number of those rows and the
\* add control is disabled and labelled "Limit Reached" exactly when that
\* number is MAX_ROWS or more.
C18_InitialRefresh ==
    /\ [](~loaded => lastEvent = "none")
    /\ [][lastEvent' = "load" => (lastEvent = "none" /\ tableBody' = tableBody)]_vars
    /\ [](lastEvent = "load" =>
            /\ TextToNumber(rowCountSpan) = Len(tableBody)
            /\ addRowButton.disabled <=> Len(tableBody) >= 160
            /\ addRowButton.textContent = "Limit Reached" <=> Len(tableBody) >= 160)

\* the handler has just run on a page of 160 rows: counter 160, control disabled
C18_Witness ==
    /\ lastEvent = "load"
    /\ loaded
    /\ Len(tableBody) = 160
    /\ \A i \in DOMAIN tableBody : tableBody[i].origin = "page"
    /\ rowCountSpan = <<"1", "6", "0">>
    /\ addRowButton = [disabled |-> TRUE, textContent |-> "Limit Reached"]

\* C19: from a state with MAX_ROWS rows and the add control disabled every
\* step leads to a state with MAX_ROWS rows and the control disabled and
\* labelled "Limit Reached"; and a behaviour in which handleAddRow runs on
\* valid drafts again and again reaches a table of MAX_ROWS rows.
C19_LimitPermanentAndReached ==
    /\ [][(Len(tableBody) = 160 /\ addRowButton.disabled)
          => (/\ Len(tableBody') = 160
              /\ addRowButton'.disabled
              /\ addRowButton'.textContent = "Limit Reached")]_vars
    /\ ([]<><<ValidSubmission>>_vars) => <>(Len(tableBody) = 160)

\* the limit was reached by a submission and a row was toggled afterwards
C19_Witness ==
    /\ lastEvent = "toggle"
    /\ Len(tableBody) = 160
    /\ tableBody[160].origin = "created"
    /\ Done(tableBody[160])
    /\ addRowButton = [disabled |-> TRUE, textContent |-> "Limit Reached"]

\* C20: in every step other than the user's own editing, the drafts change
\* exactly when the row count grows by one, and when they change all three
\* become empty.
C20_ClearedIffAppended ==
    [][lastEvent' # "input" =>
         /\ (Len(tableBody') = Len(tableBody) + 1)
               <=> (<<nameInput, numberInput, areaInput>>'
                       # <<nameInput, numberInput, areaInput>>)
         /\ nameInput' # nameInput \/ numberInput' # numberInput \/ areaInput' # areaInput
               => DraftsEmpty']_vars

\* a click has just appended the 160th row and emptied the three drafts
C20_Witness ==
    /\ lastEvent = "click"
    /\ notice = "None"
    /\ Len(tableBody) = MAX_ROWS
    /\ tableBody[MAX_ROWS].origin = "created"
    /\ tableBody[MAX_ROWS].area = <<"N">>
    /\ DraftsEmpty

====
